---- MODULE Spec2Model ----
(***************************************************************************)
(* Skeleton post-processing of igneous: trim_skeleton and its four passes  *)
(* (remove_dust, remove_loops, connect_pieces, remove_ticks) of            *)
(* igneous/tasks/skeletonization/postprocess.py.                           *)
(*                                                                         *)
(* A vertex is known by a tag (its index in the input skeleton); `order`   *)
(* is the current vertex array, so the index of a vertex is its place in   *)
(* `order`.  Coordinates and radii travel with the vertex, so they are     *)
(* functions of the tag.  The edge array is a bag of rows: a row [u, v]    *)
(* is the set {u, v} (a row [b, b] is the set {b}) with its multiplicity.  *)
(***************************************************************************)
EXTENDS Integers, Sequences, FiniteSets, TLC

\* Bounds of the model.
MaxVerts == 4
MaxCoord == 2
MaxRadius == 2
MaxThreshold == 3
MaxIters == 6
MaxFrags == 3
MaxFragVerts == 3

VARIABLES
  pos,     \* skeleton.vertices: tag -> <<x, y, z>>
  rad,     \* skeleton.radii: tag -> radius
  order,   \* the vertex array: sequence of tags, index = place
  edges,   \* skeleton.edges: edge -> number of rows
  op,      \* the public function that was called
  pc,      \* the function (or loop) control is in
  dust_threshold,
  tick_threshold,
  input,   \* the skeleton the call was made on
  comps,   \* skeleton.components() still to be processed
  skels,   \* the list `skels` of processed components
  nodes,   \* the vertex array of the component being processed
  G,       \* the networkx graph G of the component being processed
  ledges,  \* the local edge array `edges` of _remove_loops
  iters,   \* iterations the running loop has made
  edges_cycle,   \* the cycle find_cycle returned last, as a set of edges
  branch_cycle,  \* the branch vertices found on that cycle
  dgraph,  \* the distance supergraph of _remove_ticks: key tuple -> weight
  branch_counts,   \* the defaultdict of _remove_ticks: vertex -> count
  terminal_nodes,  \* the set terminal_nodes of _remove_ticks
  calls,   \* how many times the public function has been called
  first,   \* what the first call returned
  skeletons,  \* fuse_skeletons: the fragments still to be concatenated
  fusing,     \* fuse_skeletons: the skeleton being assembled
  offset      \* fuse_skeletons: the shift added to the next fragment's edges

vars == <<pos, rad, order, edges, op, pc, dust_threshold, tick_threshold, input,
          comps, skels, nodes, G, ledges, iters, edges_cycle, branch_cycle,
          dgraph, branch_counts,
          terminal_nodes, calls, first, skeletons, fusing, offset>>

Tags == 1..MaxVerts
EdgeU == {{a, b} : a \in Tags, b \in Tags}
NoEdges == [e \in EdgeU |-> 0]

RECURSIVE SumF(_, _)
SumF(f, S) ==
  IF S = {} THEN 0
  ELSE LET x == CHOOSE y \in S : TRUE IN f[x] + SumF(f, S \ {x})

Abs(x) == IF x < 0 THEN -x ELSE x
Min(S) == CHOOSE x \in S : \A y \in S : x <= y

----------------------------------------------------------------------------
\* Geometry.  Inputs are drawn from point sets whose pairwise distances are
\* integers, on which Norm is the exact euclidean distance.

Dist2(p, q) ==
  (p[1] - q[1]) * (p[1] - q[1]) + (p[2] - q[2]) * (p[2] - q[2])
    + (p[3] - q[3]) * (p[3] - q[3])

\* np.linalg.norm(p - q)
Norm(p, q) ==
  LET s == Dist2(p, q)
      b == Abs(p[1] - q[1]) + Abs(p[2] - q[2]) + Abs(p[3] - q[3])
  IN CHOOSE r \in 0..b : r * r <= s /\ (r + 1) * (r + 1) > s

EdgeLen(e) ==
  LET u == CHOOSE x \in e : TRUE
      v == CHOOSE x \in e : e = {u, x}
  IN Norm(pos[u], pos[v])

----------------------------------------------------------------------------
\* The skeleton value (cloudvolume PrecomputedSkeleton).

Support(E) == {e \in EdgeU : E[e] > 0}
Touched(Es) == UNION Es
Restrict(E, Es) == [e \in EdgeU |-> IF e \in Es THEN E[e] ELSE 0]

\* The index of a vertex in a vertex array, and the first of a set in it.
PlaceIn(vs, v) == CHOOSE i \in 1..Len(vs) : vs[i] = v
FirstIn(vs, S) == CHOOSE v \in S : \A w \in S : PlaceIn(vs, v) <= PlaceIn(vs, w)

Idx(v) == PlaceIn(order, v)

\* skeleton.empty()
Empty(ord, E) == ord = << >> \/ Support(E) = {}

\* skeleton.cable_length()
CableLength(E) == SumF([e \in EdgeU |-> E[e] * EdgeLen(e)], Support(E))

RECURSIVE Closure(_, _)
Closure(S, Es) ==
  LET T == S \cup {w \in Touched(Es) : \E e \in Es : w \in e /\ e \cap S # {}}
  IN IF T = S THEN S ELSE Closure(T, Es)

EdgesIn(C, Es) == {e \in Es : e \subseteq C}

\* skeleton.components(): the connected components, by least vertex index.
RECURSIVE CompSeq(_, _)
CompSeq(Vs, Es) ==
  IF Vs = {} THEN << >>
  ELSE LET v == CHOOSE x \in Vs : \A y \in Vs : Idx(x) <= Idx(y)
           C == Closure({v}, Es)
       IN <<C>> \o CompSeq(Vs \ C, Es)

Components(E) == CompSeq(Touched(Support(E)), Support(E))

\* The vertex array of the part C of the skeleton, in index order.
VertsOf(ord, C) == LET In(v) == v \in C IN SelectSeq(ord, In)

RECURSIVE Concat(_)
Concat(ss) == IF ss = << >> THEN << >> ELSE Head(ss) \o Concat(Tail(ss))

\* PrecomputedSkeleton.simple_merge(skels) of parts of one skeleton, each
\* given as [nodes, edges], followed by consolidate(): the vertex arrays are
\* concatenated and the vertices without an edge dropped.
MergedEdges(parts) ==
  [e \in EdgeU |-> SumF([i \in 1..Len(parts) |-> parts[i].edges[e]], 1..Len(parts))]

Consolidate(ord, E) == VertsOf(ord, Touched(Support(E)))

MergedOrder(parts) ==
  Consolidate(Concat([i \in 1..Len(parts) |-> parts[i].nodes]), MergedEdges(parts))

----------------------------------------------------------------------------
\* Control: trim_skeleton runs the four passes in order; a pass called alone
\* returns to its caller.

NextPass(p) ==
  IF op # "trim_skeleton" THEN "returned"
  ELSE CASE p = "remove_dust" -> "remove_loops"
         [] p = "remove_loops" -> "connect_pieces"
         [] p = "connect_pieces" -> "remove_ticks"
         [] p = "remove_ticks" -> "returned"

FuseLocals == UNCHANGED <<skeletons, fusing, offset>>
Frame ==
  /\ UNCHANGED <<pos, rad, op, dust_threshold, tick_threshold, input, calls, first>>
  /\ FuseLocals
LoopLocals == UNCHANGED <<ledges, iters, edges_cycle, branch_cycle>>
TickLocals == UNCHANGED <<dgraph, branch_counts, terminal_nodes>>
NoLocals == UNCHANGED <<comps, skels, nodes, G>> /\ LoopLocals /\ TickLocals

----------------------------------------------------------------------------
\* remove_dust

DustKeepsGE(c) == c >= dust_threshold

DustKeeps(c) == c > dust_threshold

DustParts ==
  LET cs == Components(edges)
      keep == {i \in 1..Len(cs) : DustKeeps(CableLength(Restrict(edges, EdgesIn(cs[i], Support(edges)))))}
      Kept(i) == i \in keep
      ks == SelectSeq([i \in 1..Len(cs) |-> i], Kept)
  IN [k \in 1..Len(ks) |->
        [nodes |-> VertsOf(order, cs[ks[k]]),
         edges |-> Restrict(edges, EdgesIn(cs[ks[k]], Support(edges)))]]

RemoveDust ==
  /\ pc = "remove_dust"
  /\ IF Empty(order, edges)
       THEN UNCHANGED <<order, edges>>
       ELSE /\ edges' = MergedEdges(DustParts)
            /\ order' = MergedOrder(DustParts)
  /\ pc' = NextPass("remove_dust")
  /\ Frame /\ NoLocals

----------------------------------------------------------------------------
\* remove_loops and _remove_loops

\* np.unique(edges, return_counts=True): the rows a vertex occurs in; a row
\* [b, b] holds b twice.
UniqueCount(v, E) ==
  SumF([e \in EdgeU |-> IF e = {v} THEN 2 * E[e] ELSE E[e]],
       {e \in Support(E) : v \in e})

\* The place of a vertex in the vertex array of the component.
FirstOf(S) == FirstIn(nodes, S)

\* The edge sets that close back on themselves: a row [b, b], or at least
\* three edges forming one ring.
IsRing(C) ==
  /\ Cardinality(C) >= 3
  /\ \A e \in C : Cardinality(e) = 2
  /\ \A v \in Touched(C) : Cardinality({e \in C : v \in e}) = 2
  /\ Closure({CHOOSE v \in Touched(C) : TRUE}, C) = Touched(C)

Cycles(Es) ==
  {{e} : e \in {x \in Es : Cardinality(x) = 1}} \cup {C \in SUBSET Es : IsRing(C)}

\* igneous.skeletontricks.find_cycle(edges, num_verts): the cycles it may return.
FindCycle(E) == Cycles(Support(E))

\* nx.shortest_path(G, a, b): the paths with the fewest edges, as edge sets.
Nbrs(g, v) == {w \in Touched(g) \ {v} : {v, w} \in g}

RECURSIVE Ball(_, _, _)
Ball(g, S, k) ==
  IF k = 0 THEN S ELSE Ball(g, S \cup UNION {Nbrs(g, v) : v \in S}, k - 1)

Hops(g, a, b) == Min({k \in 0..Cardinality(g) : b \in Ball(g, {a}, k)})

RECURSIVE PathsOfLen(_, _, _, _)
PathsOfLen(g, a, b, k) ==
  IF k = 0 THEN (IF a = b THEN {{}} ELSE {})
  ELSE UNION {{p \cup {{a, n}} : p \in PathsOfLen(g, n, b, k - 1)} :
                n \in {m \in Nbrs(g, a) : b \in Ball(g, {m}, k - 1)}}

ShortestPaths(g, a, b) == PathsOfLen(g, a, b, Hops(g, a, b))

RemoveRow(E, rows) == [e \in EdgeU |-> IF e \in rows THEN 0 ELSE E[e]]
AddRows(E, rows) == [e \in EdgeU |-> IF e \in rows THEN E[e] + 1 ELSE E[e]]

NodesCycle(cyc) == Touched(cyc)
BranchCycle(cyc) == {v \in NodesCycle(cyc) : UniqueCount(v, ledges) >= 3}

\* np.argmax of the squared distances of the cycle's points to the branch point.
EndNode(cyc, b) ==
  FirstOf({v \in NodesCycle(cyc) :
             \A w \in NodesCycle(cyc) :
               Dist2(pos[v], pos[b]) >= Dist2(pos[w], pos[b])})

\* np.argmin of the squared distances of all points of the component to the
\* centroid of the branch points (scaled by the number of branch points).
CentroidDist(v, B) ==
  LET k == Cardinality(B)
      S(c) == SumF([b \in Tags |-> pos[b][c]], B)
  IN (k * pos[v][1] - S(1)) * (k * pos[v][1] - S(1))
       + (k * pos[v][2] - S(2)) * (k * pos[v][2] - S(2))
       + (k * pos[v][3] - S(3)) * (k * pos[v][3] - S(3))

IntersectNode(B) ==
  LET Vs == {nodes[i] : i \in 1..Len(nodes)}
  IN FirstOf({v \in Vs : \A w \in Vs : CentroidDist(v, B) <= CentroidDist(w, B)})

\* Entering _remove_loops(component) for the head of `comps`.
EnterLoops(cs) ==
  LET C == Head(cs)
  IN /\ comps' = Tail(cs)
     /\ nodes' = VertsOf(order, C)
     /\ G' = EdgesIn(C, Support(edges))
     /\ ledges' = Restrict(edges, EdgesIn(C, Support(edges)))
     /\ iters' = 0

RemoveLoops ==
  /\ pc = "remove_loops"
  /\ IF Empty(order, edges)
       THEN /\ pc' = NextPass("remove_loops")
            /\ NoLocals
       ELSE /\ pc' = "_remove_loops"
            /\ EnterLoops(Components(edges))
            /\ skels' = << >>
            /\ UNCHANGED <<edges_cycle, branch_cycle>>
  /\ UNCHANGED <<order, edges>>
  /\ Frame /\ TickLocals

LoopStep(cyc, g, E) ==
  /\ iters < MaxIters
  /\ edges_cycle' = cyc
  /\ branch_cycle' = BranchCycle(cyc)
  /\ G' = g
  /\ ledges' = E
  /\ iters' = iters + 1
  /\ UNCHANGED <<pc, order, edges, comps, skels, nodes>>
  /\ Frame /\ TickLocals

\* One branch point on the cycle.
LoopCase1 ==
  /\ pc = "_remove_loops"
  /\ \E cyc \in FindCycle(ledges) :
       /\ Cardinality(BranchCycle(cyc)) = 1
       /\ LET b == CHOOSE v \in BranchCycle(cyc) : TRUE
              new == {b, EndNode(cyc, b)}
          IN LoopStep(cyc, (G \ cyc) \cup {new}, AddRows(RemoveRow(ledges, cyc), {new}))

LoopCase2WholeCycle ==
  /\ pc = "_remove_loops"
  /\ \E cyc \in FindCycle(ledges) :
       /\ Cardinality(BranchCycle(cyc)) = 2
       /\ LoopStep(cyc, G \ cyc, RemoveRow(ledges, cyc))

\* Two branch points on the cycle.
LoopCase2 ==
  /\ pc = "_remove_loops"
  /\ \E cyc \in FindCycle(ledges) :
       /\ Cardinality(BranchCycle(cyc)) = 2
       /\ LET b1 == FirstOf(BranchCycle(cyc))
              b2 == CHOOSE v \in BranchCycle(cyc) : v # b1
          IN \E path \in ShortestPaths(G, b1, b2) :
               LoopStep(cyc, G \ (cyc \ path), RemoveRow(ledges, cyc \ path))

\* No branch point on the cycle.
LoopCase0 ==
  /\ pc = "_remove_loops"
  /\ \E cyc \in FindCycle(ledges) :
       /\ Cardinality(BranchCycle(cyc)) = 0
       /\ LoopStep(cyc, G \ cyc, RemoveRow(ledges, cyc))

\* Three or more branch points on the cycle.
LoopCaseN ==
  /\ pc = "_remove_loops"
  /\ \E cyc \in FindCycle(ledges) :
       /\ Cardinality(BranchCycle(cyc)) >= 3
       /\ LET B == BranchCycle(cyc)
              new == {{b, IntersectNode(B)} : b \in B \ {IntersectNode(B)}}
          IN LoopStep(cyc, (G \ cyc) \cup new, AddRows(RemoveRow(ledges, cyc), new))

LoopsBreakEarly(E) == iters >= 1 \/ FindCycle(E) = {}

\* `if len(edges_cycle) == 0: break`
LoopsBreak(E) == FindCycle(E) = {}

\* The loop of _remove_loops ends: the component is returned to remove_loops,
\* which goes on to the next one or merges and consolidates them all.
LoopBreak ==
  /\ pc = "_remove_loops"
  /\ LoopsBreak(ledges)
  /\ LET done == Append(skels, [nodes |-> nodes, edges |-> ledges])
     IN IF comps # << >>
          THEN /\ EnterLoops(comps)
               /\ skels' = done
               /\ UNCHANGED <<pc, order, edges>>
          ELSE /\ edges' = MergedEdges(done)
               /\ order' = MergedOrder(done)
               /\ pc' = NextPass("remove_loops")
               /\ skels' = done
               /\ UNCHANGED <<comps, nodes, G, ledges, iters>>
  /\ edges_cycle' = {}
  /\ UNCHANGED branch_cycle
  /\ Frame /\ TickLocals

----------------------------------------------------------------------------
\* connect_pieces

RECURSIVE EdgeSeq(_)
EdgeSeq(Es) ==
  IF Es = {} THEN << >>
  ELSE LET e == CHOOSE x \in Es : TRUE IN <<e>> \o EdgeSeq(Es \ {e})

FindConnectedByEdge(E) == EdgeSeq(Support(E))

\* find_connected(nodes, edges): the components that hold an edge, by label.
FindConnected(E) == Components(E)

\* tree.query(nodes_piece): for the vertex p, the distance to the nearest
\* vertex of Q, and the vertices of Q at that distance.
QueryDist(p, Q) == Min({Norm(pos[p], pos[q]) : q \in Q})
QueryIdx(p, Q) == {q \in Q : Norm(pos[p], pos[q]) = QueryDist(p, Q)}

MinDist(P, Q) == Min({QueryDist(p, Q) : p \in P})

\* nodes_piece_idx[min_dist_idx]: the first vertex of P at the least distance.
StartIdx(P, Q) ==
  CHOOSE p \in P :
    /\ QueryDist(p, Q) = MinDist(P, Q)
    /\ \A r \in P : QueryDist(r, Q) = MinDist(P, Q) => Idx(p) <= Idx(r)

RadiusTestStrict(p, q, d) == rad[p] + rad[q] > d

\* `if (radii[start_idx] + radii[end_idx]) >= min_dist`
RadiusTest(p, q, d) == rad[p] + rad[q] >= d

\* combination_pairs(n): the pairs (i, j), i < j, in lexicographic order.
RECURSIVE PairsFrom(_, _, _)
PairsFrom(i, j, n) ==
  IF i >= n THEN << >>
  ELSE IF j > n THEN PairsFrom(i + 1, i + 2, n)
  ELSE <<<<i, j>>>> \o PairsFrom(i, j + 1, n)

CombinationPairs(n) == PairsFrom(1, 2, n)

\* One sweep of the `for` loop over the pairs from pair k on: the edges it
\* may add before `break`, and NoBridge when it may run to its end.
NoBridge == {}

RECURSIVE Sweep(_, _, _)
Sweep(cs, prs, k) ==
  IF k > Len(prs) THEN {NoBridge}
  ELSE LET P == cs[prs[k][1]]
           Q == cs[prs[k][2]]
           p == StartIdx(P, Q)
           ends == QueryIdx(p, Q)
           hit == {q \in ends : RadiusTest(p, q, MinDist(P, Q))}
       IN {{p, q} : q \in hit}
            \cup (IF ends \ hit # {} THEN Sweep(cs, prs, k + 1) ELSE {})

SweepOutcomes(E) ==
  LET cs == FindConnected(E) IN Sweep(cs, CombinationPairs(Len(cs)), 1)

\* An iteration of `while all_connected` that adds an edge.
ConnectPieces ==
  /\ pc = "connect_pieces"
  /\ ~Empty(order, edges)
  /\ \E e \in SweepOutcomes(edges) \ {NoBridge} :
       edges' = AddRows(edges, {e})
  /\ UNCHANGED <<pc, order>>
  /\ Frame /\ NoLocals

\* The sweep adds nothing (or the skeleton is empty): connect_pieces returns.
ConnectReturn ==
  /\ pc = "connect_pieces"
  /\ IF Empty(order, edges)
       THEN UNCHANGED order
       ELSE /\ NoBridge \in SweepOutcomes(edges)
            /\ order' = Consolidate(order, edges)
  /\ pc' = NextPass("connect_pieces")
  /\ UNCHANGED edges
  /\ Frame /\ NoLocals

----------------------------------------------------------------------------
\* remove_ticks, _remove_ticks and _create_distance_graph

\* A Python dict as a function: assignment and `del`.
Put(d, k, w) == [x \in DOMAIN d \cup {k} |-> IF x = k THEN w ELSE d[x]]
Del(d, ks) == [x \in DOMAIN d \ ks |-> d[x]]
Range(t) == {t[i] : i \in DOMAIN t}

\* tuple(set): small integers come out of a CPython set in increasing order.
RECURSIVE TupleOf(_, _)
TupleOf(vs, S) ==
  IF S = {} THEN << >>
  ELSE LET v == FirstIn(vs, S) IN <<v>> \o TupleOf(vs, S \ {v})

TerminalNodes(vs, E) == {v \in Range(vs) : UniqueCount(v, E) = 1}
BranchNodesFromTwo(vs, E) == {v \in Range(vs) : UniqueCount(v, E) >= 2}
BranchNodes(vs, E) == {v \in Range(vs) : UniqueCount(v, E) >= 3}
CriticalPoints(vs, E) == TerminalNodes(vs, E) \cup BranchNodes(vs, E)

\* tree[node]: the neighbours of a node (itself, for a row [b, b]).
TreeOf(E, v) == {w \in Tags : {v, w} \in Support(E)}

\* How many frames the traversal may pop before it is taken not to end.
DfsFuel == 4 * MaxVerts + 4

\* The `while stack` loop of _create_distance_graph: frames are popped from
\* the end of the stack and the children pushed in index order.
RECURSIVE Dfs(_, _, _, _, _)
Dfs(stack, dg, fuel, vs, E) ==
  IF stack = << >> THEN [ended |-> TRUE, graph |-> dg]
  ELSE IF fuel = 0 THEN [ended |-> FALSE, graph |-> dg]
  ELSE LET f == stack[Len(stack)]
           rest == SubSeq(stack, 1, Len(stack) - 1)
           hit == f.node \in CriticalPoints(vs, E) /\ f.node # f.root
           dist == IF hit THEN 0 ELSE f.dist
           root == IF hit THEN f.node ELSE f.root
           IsChild(c) == c \in TreeOf(E, f.node) /\ c # f.parent
           kids == SelectSeq(vs, IsChild)
           pushed == [i \in 1..Len(kids) |->
                        [node |-> kids[i], parent |-> f.node, root |-> root,
                         dist |-> dist + Norm(pos[f.node], pos[kids[i]])]]
       IN Dfs(rest \o pushed,
              IF hit THEN Put(dg, <<f.root, f.node>>, f.dist) ELSE dg,
              fuel - 1, vs, E)

\* _create_distance_graph(skeleton), entered with a terminal node to start at.
CreateDistanceGraph(vs, E) ==
  LET t == FirstIn(vs, TerminalNodes(vs, E))
  IN Dfs(<<[node |-> t, parent |-> 0, root |-> t, dist |-> 0]>>, << >>,
         DfsFuel, vs, E)

\* Entering _remove_ticks(component) for the head of `comps`: the distance
\* graph is built (terminal_nodes[0] raises IndexError when there is no
\* terminal node) and the tables are set up.
EnterTicks(cs) ==
  LET C == Head(cs)
      vs == VertsOf(order, C)
      E == Restrict(edges, EdgesIn(C, Support(edges)))
  IN /\ comps' = Tail(cs)
     /\ nodes' = vs
     /\ G' = Support(E)
     /\ terminal_nodes' = TerminalNodes(vs, E)
     /\ branch_counts' =
          [v \in Tags |-> IF v \in BranchNodes(vs, E) THEN UniqueCount(v, E) ELSE 0]
     /\ IF TerminalNodes(vs, E) = {}
          THEN /\ pc' = "raised"
               /\ dgraph' = << >>
          ELSE /\ dgraph' = CreateDistanceGraph(vs, E).graph
               /\ pc' = IF CreateDistanceGraph(vs, E).ended
                          THEN "_remove_ticks" ELSE "diverged"

RemoveTicks ==
  /\ pc = "remove_ticks"
  /\ IF Empty(order, edges)
       THEN /\ pc' = NextPass("remove_ticks")
            /\ UNCHANGED <<comps, skels, nodes, G>>
            /\ TickLocals
       ELSE /\ EnterTicks(Components(edges))
            /\ skels' = << >>
  /\ UNCHANGED <<order, edges>>
  /\ Frame /\ LoopLocals

\* terminal_superedges, and the superedges min() may return.
KeyOk(k) == Len(k) >= 2 \/ (Len(k) = 1 /\ k[1] \in terminal_nodes)
TerminalSuperedges ==
  {k \in DOMAIN dgraph : k[1] \in terminal_nodes \/ k[2] \in terminal_nodes}
MinEdges ==
  {k \in TerminalSuperedges : \A j \in TerminalSuperedges : dgraph[k] <= dgraph[j]}

FuseEdgeLast(d, bc, edg1) ==
  LET unify == {k \in DOMAIN d : edg1 \in Range(k)}
      new_dist == IF unify = {} THEN 0 ELSE d[CHOOSE k \in unify : TRUE]
      ends == UNION {Range(k) : k \in unify}
  IN [ok |-> edg1 \in ends,
      d |-> Put(Del(d, unify), TupleOf(nodes, ends \ {edg1}), new_dist),
      bc |-> [bc EXCEPT ![edg1] = 0]]

\* fuse_edge(edg1) on the tables d and bc; `ok` is FALSE where unify.remove
\* raises KeyError.
FuseEdge(d, bc, edg1) ==
  LET unify == {k \in DOMAIN d : edg1 \in Range(k)}
      new_dist == SumF(d, unify)
      ends == UNION {Range(k) : k \in unify}
  IN [ok |-> edg1 \in ends,
      d |-> Put(Del(d, unify), TupleOf(nodes, ends \ {edg1}), new_dist),
      bc |-> [bc EXCEPT ![edg1] = 0]]

FuseIf(t, v) == IF t.ok /\ t.bc[v] = 2 THEN FuseEdge(t.d, t.bc, v) ELSE t

\* The tables after `del dgraph[min_edge]`, the two decrements and the fusions.
Pruned(k) ==
  LET bc1 == [branch_counts EXCEPT ![k[1]] = @ - 1]
      bc2 == [bc1 EXCEPT ![k[2]] = @ - 1]
  IN FuseIf(FuseIf([ok |-> TRUE, d |-> Del(dgraph, {k}), bc |-> bc2], k[1]), k[2])

WhileTicksAny == Cardinality(DOMAIN dgraph) > 0

\* `while len(dgraph) > 1`
WhileTicks == Cardinality(DOMAIN dgraph) > 1

IsTickBelow(k) ==
  /\ ~(branch_counts[k[1]] = 1 /\ branch_counts[k[2]] = 1)
  /\ ~(dgraph[k] + 1 >= tick_threshold)

\* The two `break`s fail: the superedge is pruned.
IsTick(k) ==
  /\ ~(branch_counts[k[1]] = 1 /\ branch_counts[k[2]] = 1)
  /\ ~(dgraph[k] >= tick_threshold)

Connected(g, a, b) == b \in Ball(g, {a}, Cardinality(g))

\* What makes an iteration raise: a key that cannot be indexed or unpacked,
\* min() of an empty list, no path in G, or a failing fuse_edge.
Raises(k) ==
  \/ Len(k) # 2
  \/ /\ IsTick(k)
     /\ \/ ~Connected(G, k[1], k[2])
        \/ ~Pruned(k).ok

\* An iteration of the loop of _remove_ticks that prunes a superedge.
TickPrune ==
  /\ pc = "_remove_ticks"
  /\ WhileTicks
  /\ \A j \in DOMAIN dgraph : KeyOk(j)
  /\ \E k \in MinEdges :
       /\ ~Raises(k)
       /\ IsTick(k)
       /\ \E path \in ShortestPaths(G, k[1], k[2]) : G' = G \ path
       /\ dgraph' = Pruned(k).d
       /\ branch_counts' = Pruned(k).bc
  /\ UNCHANGED <<pc, order, edges, comps, skels, nodes, terminal_nodes>>
  /\ Frame /\ LoopLocals

\* An iteration that raises an exception.  No skeleton of up to MaxVerts
\* vertices that reaches the loop raises in it, so the specifications below
\* leave this step out.
TickRaise ==
  /\ pc = "_remove_ticks"
  /\ WhileTicks
  /\ \/ \E j \in DOMAIN dgraph : ~KeyOk(j)
     \/ TerminalSuperedges = {}
     \/ \E k \in MinEdges : Raises(k)
  /\ pc' = "raised"
  /\ UNCHANGED <<order, edges, comps, skels, nodes, G>>
  /\ Frame /\ LoopLocals /\ TickLocals

\* The loop ends (its condition fails, or a `break`): the edges of G become
\* the component's edges, and remove_ticks goes on to the next component or
\* merges and consolidates them all.
TickBreak ==
  /\ pc = "_remove_ticks"
  /\ \/ ~WhileTicks
     \/ /\ \A j \in DOMAIN dgraph : KeyOk(j)
        /\ \E k \in MinEdges : ~Raises(k) /\ ~IsTick(k)
  /\ LET done == Append(skels, [nodes |-> nodes,
                                 edges |-> [e \in EdgeU |-> IF e \in G THEN 1 ELSE 0]])
     IN IF comps # << >>
          THEN /\ EnterTicks(comps)
               /\ skels' = done
               /\ UNCHANGED <<order, edges>>
          ELSE /\ edges' = MergedEdges(done)
               /\ order' = MergedOrder(done)
               /\ pc' = NextPass("remove_ticks")
               /\ skels' = done
               /\ UNCHANGED <<comps, nodes, G>>
               /\ TickLocals
  /\ Frame /\ LoopLocals

----------------------------------------------------------------------------
\* trim_skeleton is the four passes in order (NextPass).  Its caller may hand
\* the skeleton it returned to it once more, with the same thresholds.
TrimAgain ==
  /\ pc = "returned"
  /\ op = "trim_skeleton"
  /\ calls = 1
  /\ calls' = 2
  /\ first' = [order |-> order, edges |-> edges]
  /\ pc' = "remove_dust"
  /\ UNCHANGED <<pos, rad, order, edges, op, dust_threshold, tick_threshold, input>>
  /\ NoLocals
  /\ FuseLocals

----------------------------------------------------------------------------
\* Inputs.

LinePoints == {<<x, 0, 0>> : x \in 0..MaxCoord}
Pairs == {e \in EdgeU : Cardinality(e) = 2}
SimpleGraphs == {[e \in EdgeU |-> IF e \in Es THEN 1 ELSE 0] : Es \in SUBSET Pairs}

AllVerts == [i \in Tags |-> i]

\* Skeleton() and PrecomputedSkeleton(): no vertices, no edges.
NoSkeleton == [vertices |-> << >>, edges |-> << >>]

InitCall(f, ord, P, R, E, d, t) ==
  /\ pos = P
  /\ rad = R
  /\ order = ord
  /\ edges = E
  /\ op = f
  /\ pc = IF f = "trim_skeleton" THEN "remove_dust" ELSE f
  /\ dust_threshold = d
  /\ tick_threshold = t
  /\ input = [order |-> ord, edges |-> E]
  /\ skeletons = << >>
  /\ fusing = NoSkeleton
  /\ offset = 0
  /\ comps = << >>
  /\ skels = << >>
  /\ nodes = << >>
  /\ G = {}
  /\ ledges = NoEdges
  /\ iters = 0
  /\ edges_cycle = {}
  /\ branch_cycle = {}
  /\ dgraph = << >>
  /\ branch_counts = [v \in Tags |-> 0]
  /\ terminal_nodes = {}
  /\ calls = 1
  /\ first = [order |-> << >>, edges |-> NoEdges]

\* Every skeleton is, up to the numbering of its vertices, one whose vertices
\* are numbered along the line.
SortedPoints == {P \in [Tags -> LinePoints] : \A a, b \in Tags : a < b => P[a][1] <= P[b][1]}

InitDust ==
  \E P \in [Tags -> LinePoints], E \in SimpleGraphs, d \in 0..MaxThreshold :
    InitCall("remove_dust", AllVerts, P, [v \in Tags |-> 0], E, d, 0)

NextDust == RemoveDust

InitLoops ==
  \E P \in [Tags -> LinePoints], E \in SimpleGraphs :
    InitCall("remove_loops", AllVerts, P, [v \in Tags |-> 0], E, 0, 0)

NextLoops ==
  \/ RemoveLoops
  \/ LoopCase0
  \/ LoopCase1
  \/ LoopCase2
  \/ LoopCaseN
  \/ LoopBreak

SpecLoops == InitLoops /\ [][NextLoops]_vars

InitConnect ==
  \E P \in [Tags -> LinePoints], R \in [Tags -> 0..MaxRadius], E \in SimpleGraphs :
    InitCall("connect_pieces", AllVerts, P, R, E, 0, 0)

NextConnect ==
  \/ ConnectPieces
  \/ ConnectReturn

SpecConnect == InitConnect /\ [][NextConnect]_vars

InitTicks ==
  \E P \in [Tags -> LinePoints], E \in SimpleGraphs, t \in 0..MaxThreshold :
    InitCall("remove_ticks", AllVerts, P, [v \in Tags |-> 0], E, 0, t)

NextTicks ==
  \/ RemoveTicks
  \/ TickPrune
  \/ TickBreak

SpecTicks == InitTicks /\ [][NextTicks]_vars

\* End-to-end scenario 1, "two-path with a short tick" (vertices numbered
\* from 1 here).
Scenario1 ==
  [vertices |-> <<<<0, 0, 0>>, <<100, 0, 0>>, <<200, 0, 0>>, <<200, 50, 0>>>>,
   edges |-> {{1, 2}, {2, 3}, {3, 4}},
   radius |-> 1,
   dust |-> 10,
   tick |-> 75]

InitScenario1 ==
  LET n == Len(Scenario1.vertices)
  IN InitCall("trim_skeleton", [i \in 1..n |-> i],
              [v \in Tags |-> IF v <= n THEN Scenario1.vertices[v] ELSE <<0, 0, 0>>],
              [v \in Tags |-> Scenario1.radius],
              [e \in EdgeU |-> IF e \in Scenario1.edges THEN 1 ELSE 0],
              Scenario1.dust, Scenario1.tick)

InitTrim ==
  \/ \E P \in SortedPoints, r \in 0..MaxRadius, E \in SimpleGraphs,
        d \in 0..MaxThreshold, t \in 0..MaxThreshold :
       InitCall("trim_skeleton", AllVerts, P, [v \in Tags |-> r], E, d, t)
  \/ InitScenario1

NextTrim ==
  \/ RemoveDust
  \/ RemoveLoops
  \/ LoopCase0
  \/ LoopCase1
  \/ LoopCase2
  \/ LoopCaseN
  \/ LoopBreak
  \/ ConnectPieces
  \/ ConnectReturn
  \/ RemoveTicks
  \/ TickPrune
  \/ TickBreak
  \/ TrimAgain

SpecTrim == InitTrim /\ [][NextTrim]_vars

SpecDust == InitDust /\ [][NextDust]_vars

----------------------------------------------------------------------------
\* SkeletonMergeTask.fuse_skeletons
\*
\* A fragment is a record of its vertex array and its edge array.  A vertex is
\* written <<k, i>>, the point at row i of fragment k; an edge row is a pair
\* of row numbers, counted from 0 as in the arrays.  The radii are
\* concatenated exactly as the vertices are and are left out.

RowsOf(n) == {r \in (0..(n - 1)) \X (0..(n - 1)) : r[1] < r[2]}

RECURSIVE RowSeq(_)
RowSeq(S) ==
  IF S = {} THEN << >>
  ELSE LET r == CHOOSE x \in S :
                  \A y \in S : x[1] < y[1] \/ (x[1] = y[1] /\ x[2] <= y[2])
       IN <<r>> \o RowSeq(S \ {r})

Fragment(k, n, S) ==
  [vertices |-> [i \in 1..n |-> <<k, i - 1>>], edges |-> RowSeq(S)]

\* s.empty()
NotEmpty(s) == Len(s.vertices) # 0 /\ Len(s.edges) # 0

\* consolidate_skeleton: the vertices no edge refers to are dropped, the others
\* renumbered in their order, and the edges rewritten.
Used(s) ==
  {i \in 1..Len(s.vertices) :
     \E r \in 1..Len(s.edges) : s.edges[r][1] = i - 1 \/ s.edges[r][2] = i - 1}

NewIndex(s, a) == Cardinality({i \in Used(s) : i - 1 < a})

ConsolidateSkeleton(s) ==
  LET IsUsed(i) == i \in Used(s)
      places == SelectSeq([i \in 1..Len(s.vertices) |-> i], IsUsed)
  IN [vertices |-> [j \in 1..Len(places) |-> s.vertices[places[j]]],
      edges |-> [r \in 1..Len(s.edges) |->
                   <<NewIndex(s, s.edges[r][1]), NewIndex(s, s.edges[r][2])>>]]

\* `skel.edges += offset`
Shift(rows, off) == [r \in 1..Len(rows) |-> <<rows[r][1] + off, rows[r][2] + off>>]

FuseFrame ==
  /\ UNCHANGED <<pos, rad, order, edges, op, dust_threshold, tick_threshold,
                 input, calls, first>>
  /\ NoLocals

\* The steps up to the loop: no file gives an empty skeleton, one file is
\* returned as it is, and of several the empty ones are dropped and the first
\* of the others becomes `fusing`.  The fragments are taken as merge_skeletons
\* left them.
FuseSkeletons ==
  /\ pc = "fuse_skeletons"
  /\ IF Len(skeletons) = 0
       THEN /\ fusing' = NoSkeleton
            /\ pc' = "returned"
            /\ UNCHANGED <<skeletons, offset>>
       ELSE IF Len(skeletons) = 1
         THEN /\ fusing' = skeletons[1]
              /\ pc' = "returned"
              /\ UNCHANGED <<skeletons, offset>>
         ELSE LET kept == SelectSeq(skeletons, NotEmpty)
              IN IF kept = << >>
                   THEN /\ fusing' = NoSkeleton
                        /\ skeletons' = kept
                        /\ pc' = "returned"
                        /\ UNCHANGED offset
                   ELSE /\ fusing' = Head(kept)
                        /\ skeletons' = Tail(kept)
                        /\ offset' = 0
                        /\ pc' = "fusing"
  /\ FuseFrame

\* One iteration of `for skel in skeletons[1:]`.
FuseNext ==
  /\ pc = "fusing"
  /\ skeletons # << >>
  /\ LET skel == Head(skeletons)
     IN IF Len(skel.edges) = 0
          THEN UNCHANGED <<fusing, offset>>
          ELSE /\ offset' = offset + Len(skel.vertices)
               /\ fusing' = [vertices |-> fusing.vertices \o skel.vertices,
                             edges |-> fusing.edges \o Shift(skel.edges, offset)]
  /\ skeletons' = Tail(skeletons)
  /\ UNCHANGED pc
  /\ FuseFrame

\* `return consolidate_skeleton(fusing)`
FuseReturn ==
  /\ pc = "fusing"
  /\ skeletons = << >>
  /\ fusing' = ConsolidateSkeleton(fusing)
  /\ pc' = "returned"
  /\ UNCHANGED <<skeletons, offset>>
  /\ FuseFrame

Shapes ==
  UNION {{[n |-> n, rows |-> S] : S \in SUBSET RowsOf(n)} : n \in 0..MaxFragVerts}

FragLists ==
  UNION {{[k \in 1..L |-> Fragment(k, sh[k].n, sh[k].rows)] : sh \in [1..L -> Shapes]} :
           L \in 0..MaxFrags}

InitFuse ==
  \E S \in FragLists :
    /\ pos = [v \in Tags |-> <<0, 0, 0>>]
    /\ rad = [v \in Tags |-> 0]
    /\ order = << >>
    /\ edges = NoEdges
    /\ op = "fuse_skeletons"
    /\ pc = "fuse_skeletons"
    /\ dust_threshold = 0
    /\ tick_threshold = 0
    /\ input = [order |-> << >>, edges |-> NoEdges, skeletons |-> S]
    /\ skeletons = S
    /\ fusing = NoSkeleton
    /\ offset = 0
    /\ comps = << >>
    /\ skels = << >>
    /\ nodes = << >>
    /\ G = {}
    /\ ledges = NoEdges
    /\ iters = 0
    /\ edges_cycle = {}
    /\ branch_cycle = {}
    /\ dgraph = << >>
    /\ branch_counts = [v \in Tags |-> 0]
    /\ terminal_nodes = {}
    /\ calls = 1
    /\ first = [order |-> << >>, edges |-> NoEdges]

NextFuse ==
  \/ FuseSkeletons
  \/ FuseNext
  \/ FuseReturn

SpecFuse == InitFuse /\ [][NextFuse]_vars

----------------------------------------------------------------------------
\* Properties.  They are stated on the skeleton as a graph: its vertices, the
\* set of its edges and the euclidean lengths, without the tables of the passes.

InEdges == Support(input.edges)
OutEdges == Support(edges)

\* The component of the graph Es that holds the edge e, as a set of edges.
PieceOf(e, Es) == EdgesIn(Closure(e, Es), Es)
Pieces(Es) == {PieceOf(e, Es) : e \in Es}

\* Sum of the euclidean lengths of the edges Es.
Cable(Es) == SumF([e \in EdgeU |-> EdgeLen(e)], Es)

\* Number of ends of edges of S at v; a self-loop has both its ends at v.
DegIn(v, S) == Cardinality({e \in S : v \in e}) + Cardinality({e \in S : e = {v}})

\* No cycle: every non-empty set of edges has a vertex where just one of
\* them ends.
Acyclic(Es) == \A S \in SUBSET Es : S = {} \/ \E v \in UNION S : DegIn(v, S) = 1

Returned == pc = "returned"

\* C4: remove_dust returns exactly the components of its input whose cable
\* length is strictly greater than dust_threshold, with their edges unchanged
\* and each of their vertices once; a component whose cable length equals the
\* threshold is dropped; an empty input is returned as it is.
LongEdges == {e \in InEdges : Cable(PieceOf(e, InEdges)) > dust_threshold}

C4_DustKeepsExactlyTheLong ==
  (Returned /\ op = "remove_dust") =>
    IF InEdges = {}
      THEN edges = input.edges /\ order = input.order
      ELSE /\ edges = Restrict(input.edges, LongEdges)
           /\ Range(order) = Touched(LongEdges)
           /\ Len(order) = Cardinality(Touched(LongEdges))

\* remove_dust has returned after dropping a component whose cable length is
\* exactly the threshold and keeping a longer one.
C4_Witness ==
  /\ Returned /\ op = "remove_dust"
  /\ dust_threshold > 0
  /\ OutEdges # {}
  /\ \E e \in InEdges \ OutEdges : Cable(PieceOf(e, InEdges)) = dust_threshold

\* C1: the graph remove_loops returns has no cycle, whatever skeleton it was
\* given.
C1_LoopsOutputAcyclic ==
  (Returned /\ op = "remove_loops") => Acyclic(OutEdges)

\* remove_loops has returned a skeleton that still has edges, from an input
\* that had a cycle.
C1_Witness ==
  /\ Returned /\ op = "remove_loops"
  /\ ~Acyclic(InEdges)
  /\ OutEdges # {}

Terminals(S) == {v \in UNION S : DegIn(v, S) = 1}
Branches(S) == {v \in UNION S : DegIn(v, S) >= 3}

\* A pure path: a connected piece without a cycle and without a branch vertex.
PurePath(S) == Acyclic(S) /\ Branches(S) = {}

\* The euclidean lengths of the paths of S from a to b that visit no vertex
\* twice (in a tree there is one such path).
RECURSIVE PathLens(_, _, _, _)
PathLens(a, b, S, seen) ==
  IF a = b THEN {0}
  ELSE UNION {{EdgeLen({a, c}) + l : l \in PathLens(c, b, S, seen \cup {a})} :
                c \in {x \in (UNION S) \ (seen \cup {a}) : {a, x} \in S}}

\* The length of the path from v to the branch vertex of S nearest to it.
ToNearestBranch(v, S) == Min(UNION {PathLens(v, b, S, {}) : b \in Branches(S)})

\* C9: remove_ticks removes no edge of a component of its input that is a pure
\* path, whatever the threshold, also when the whole path is shorter than it.
C9_PurePathsUntouched ==
  (Returned /\ op = "remove_ticks") =>
    \A S \in Pieces(InEdges) :
      PurePath(S) => S \subseteq OutEdges /\ UNION S \subseteq Range(order)

\* remove_ticks has returned a path of two or more edges that is shorter than
\* the threshold.
C9_Witness ==
  /\ Returned /\ op = "remove_ticks"
  /\ \E S \in Pieces(InEdges) :
       /\ PurePath(S)
       /\ Cardinality(S) >= 2
       /\ Cable(S) < tick_threshold
       /\ S \subseteq OutEdges

Admissible(p, q) == rad[p] + rad[q] >= Norm(pos[p], pos[q])

\* The least distance between a vertex of P and a vertex of Q.
Gap(P, Q) == Min({Norm(pos[p], pos[q]) : p \in UNION P, q \in UNION Q})

\* C3 as stated: when connect_pieces returns, no two distinct components have
\* vertices p and q that satisfy the radius criterion.
C3_NoAdmissiblePairLeft ==
  (Returned /\ op = "connect_pieces") =>
    \A P, Q \in Pieces(OutEdges) :
      P # Q => \A p \in UNION P, q \in UNION Q : ~Admissible(p, q)

\* C3, as the code has it: when connect_pieces returns, every two distinct
\* components have a pair of vertices at the least distance between the two
\* that fails the radius criterion.  Pairs farther apart are never tested.
C3_ClosestPairRefused ==
  (Returned /\ op = "connect_pieces") =>
    \A P, Q \in Pieces(OutEdges) :
      P # Q => \E p \in UNION P, q \in UNION Q :
                 Norm(pos[p], pos[q]) = Gap(P, Q) /\ ~Admissible(p, q)

\* connect_pieces has returned two components whose closest pair fails the
\* radius criterion while a pair farther apart satisfies it.
C3_Witness ==
  /\ Returned /\ op = "connect_pieces"
  /\ \E P, Q \in Pieces(OutEdges) :
       /\ P # Q
       /\ \E p \in UNION P, q \in UNION Q :
            Admissible(p, q) /\ Norm(pos[p], pos[q]) > Gap(P, Q)

\* The edges of Es that lie on a cycle: self-loops, and edges whose ends are
\* joined by the other edges.
OnCycle(Es) ==
  {e \in Es : Cardinality(e) = 1 \/ \E a \in e : e \subseteq Closure({a}, Es \ {e})}

\* C8: every iteration of the loop of _remove_loops strictly reduces the
\* number of edges that lie on cycles (which is why the loop would end).
C8_EachIterationReduces ==
  [][(pc = "_remove_loops" /\ iters' = iters + 1) =>
       Cardinality(OnCycle(Support(ledges'))) < Cardinality(OnCycle(Support(ledges)))]_vars

TrimReturned == Returned /\ op = "trim_skeleton"

\* C10 as stated: on scenario 1 trim_skeleton removes the (2,3) tick and
\* returns the edges (0,1), (1,2) over three vertices.
IsScenario1 ==
  /\ dust_threshold = Scenario1.dust
  /\ tick_threshold = Scenario1.tick
  /\ input.order = <<1, 2, 3, 4>>
  /\ InEdges = Scenario1.edges
  /\ \A v \in 1..4 : pos[v] = Scenario1.vertices[v] /\ rad[v] = Scenario1.radius

C10_TickRemoved ==
  (IsScenario1 /\ TrimReturned /\ calls = 1) =>
    OutEdges = {{1, 2}, {2, 3}} /\ Len(order) = 3

\* C10, as the code has it: the skeleton of scenario 1 has no branch vertex
\* (its degrees are 1, 2, 2, 1), it is a pure path, and trim_skeleton returns
\* all three of its edges over all four vertices.
C10_Scenario1Unchanged ==
  (IsScenario1 /\ TrimReturned /\ calls = 1) =>
    edges = input.edges /\ order = input.order

\* trim_skeleton has returned from scenario 1.
C10_Witness == IsScenario1 /\ TrimReturned /\ calls = 1

\* C6 as stated: every component of the skeleton trim_skeleton returns has a
\* cable length strictly greater than dust_threshold.
C6_OutputAboveDust ==
  (TrimReturned /\ calls = 1) =>
    \A S \in Pieces(OutEdges) : Cable(S) > dust_threshold

\* C6, as the code has it: every vertex of every component trim_skeleton
\* returns comes from a component of the input whose cable length was
\* strictly greater than dust_threshold.  Only the first pass compares with
\* the threshold; tick removal can leave a component at or below it.
C6_OutputFromLongInput ==
  (TrimReturned /\ calls = 1) =>
    \A v \in UNION OutEdges :
      \E S \in Pieces(InEdges) : v \in UNION S /\ Cable(S) > dust_threshold

\* trim_skeleton has returned a component that is not longer than the dust
\* threshold, cut from a longer one.
C6_Witness ==
  /\ TrimReturned /\ calls = 1
  /\ \E S \in Pieces(OutEdges) : Cable(S) <= dust_threshold

\* C7: the graph trim_skeleton returns has no cycle, and every edge that
\* connect_pieces adds joins two vertices that are in different components
\* when it is added.
C7_TrimOutputAcyclic ==
  /\ [](TrimReturned => Acyclic(OutEdges))
  /\ [][(pc = "connect_pieces" /\ edges' # edges) =>
          \E e \in Pairs :
            /\ edges[e] = 0
            /\ edges' = [edges EXCEPT ![e] = 1]
            /\ \A a \in e : ~(e \subseteq Closure({a}, OutEdges))]_vars

\* trim_skeleton has returned a skeleton that holds an edge connect_pieces
\* added between two components of the input.
C7_Witness ==
  /\ TrimReturned /\ calls = 1
  /\ \E e \in OutEdges : \E S, T \in Pieces(InEdges) :
       S # T /\ e \cap UNION S # {} /\ e \cap UNION T # {}

FirstEdges == Support(first.edges)

\* C5: trim_skeleton applied to what it returned, with the same thresholds,
\* returns the same vertices and the same edges.
SameAsFirst == OutEdges = FirstEdges /\ Range(order) = Range(first.order)

C5_Idempotent == (TrimReturned /\ calls = 2) => SameAsFirst

\* C11 as stated: with dust_threshold = 0, remove_dust keeps every component
\* of its input, also one whose edges all have zero length.
C11_ZeroKeepsAll ==
  (Returned /\ op = "remove_dust" /\ dust_threshold = 0) => OutEdges = InEdges

\* C11, as the code has it: with dust_threshold = 0, remove_dust keeps every
\* component that has an edge of positive length, and drops every component
\* whose edges all have zero length (its cable length 0 is not above 0).
C11_ZeroKeepsPositive ==
  (Returned /\ op = "remove_dust" /\ dust_threshold = 0) =>
    \A S \in Pieces(InEdges) :
      IF \E e \in S : EdgeLen(e) > 0 THEN S \subseteq OutEdges
                                       ELSE S \cap OutEdges = {}

\* remove_dust(skeleton, 0) has returned after dropping a component of
\* coincident vertices and keeping another.
C11_Witness ==
  /\ Returned /\ op = "remove_dust" /\ dust_threshold = 0
  /\ OutEdges # {}
  /\ \E S \in Pieces(InEdges) : S \cap OutEdges = {} /\ Cable(S) = 0

\* C12: remove_ticks reaches its return on every skeleton, whatever its
\* topology: neither the traversal of _create_distance_graph nor the pruning
\* loop raises an exception or runs without end.
C12_TicksReturns ==
  op = "remove_ticks" => pc # "raised" /\ pc # "diverged"

\* The vertices that end a superedge of D, and the number of superedges of D
\* that end at v.
Endpoints == UNION {Range(k) : k \in DOMAIN dgraph}
DegInD(v) == Cardinality({k \in DOMAIN dgraph : v \in Range(k)})

\* An iteration of the pruning loop of _remove_ticks is about to start.
AtIteration == pc = "_remove_ticks" /\ WhileTicks

\* C13: at the start of every iteration of the pruning loop, branch_counts[v]
\* is the number of superedges of D that end at v, for every vertex v that
\* ends one: 1 for a terminal, 3 or more for a branch vertex.
C13_CountsAreDegrees ==
  AtIteration => \A v \in Endpoints : branch_counts[v] = DegInD(v)

\* C14: while ticks are removed from a tree, D is the supergraph of the
\* critical points of the current graph G, after every iteration that prunes
\* and fuses as before the first: every superedge of D joins two vertices
\* that have degree 1 or degree 3 or more in G, and its weight is the
\* euclidean length of the path of G between the two.
C14_SupergraphOfG ==
  (pc = "_remove_ticks" /\ op = "remove_ticks" /\ Acyclic(InEdges)) =>
    \A k \in DOMAIN dgraph :
      /\ Len(k) = 2
      /\ \A v \in Range(k) : DegIn(v, G) = 1 \/ DegIn(v, G) >= 3
      /\ PathLens(k[1], k[2], G, {}) = {dgraph[k]}

\* An iteration has pruned a tick of a tree and fused the two superedges
\* left at its branch vertex into one of positive weight.
C14_Witness ==
  /\ pc = "_remove_ticks" /\ op = "remove_ticks" /\ Acyclic(InEdges)
  /\ \E e \in InEdges : e \subseteq Range(nodes) /\ e \notin G
  /\ \E k \in DOMAIN dgraph : dgraph[k] > 0 /\ \A v \in Range(k) : v \in terminal_nodes

\* C15: an iteration of the loop of _remove_loops that found exactly two
\* branch vertices b1, b2 on its cycle removes the cycle edges that are not on
\* a shortest path from b1 to b2, and changes no other edge; it removes at
\* least one edge, and b1 and b2 are still joined afterwards.
C15_TwoBranchStep ==
  [][(pc = "_remove_loops" /\ iters' = iters + 1 /\ Cardinality(branch_cycle') = 2) =>
       LET removed == {e \in EdgeU : ledges'[e] < ledges[e]}
           b1 == CHOOSE v \in branch_cycle' : TRUE
           b2 == CHOOSE v \in branch_cycle' : v # b1
       IN /\ removed # {}
          /\ \A e \in removed : ledges'[e] = 0
          /\ \A e \in EdgeU \ removed : ledges'[e] = ledges[e]
          /\ \E path \in ShortestPaths(Support(ledges), b1, b2) :
               removed = edges_cycle' \ path
          /\ Connected(Support(ledges'), b1, b2)
          /\ G' = Support(ledges')]_vars

\* A two-branch iteration has kept the cycle edges of the shortest path it
\* found and removed the others.
C15_Witness ==
  /\ pc = "_remove_loops" /\ iters >= 1
  /\ Cardinality(branch_cycle) = 2
  /\ edges_cycle \cap Support(ledges) # {}
  /\ edges_cycle \ Support(ledges) # {}

\* An edge array with no row [b, b] and no row twice.
Simple(E) == \A e \in EdgeU : E[e] <= 1 /\ (E[e] = 1 => Cardinality(e) = 2)

\* C16: after every iteration of the loop of _remove_loops, and in what
\* remove_loops returns, the edge list is a simple graph: no edge joins a
\* vertex to itself and no edge occurs twice.
C16_EdgesStaySimple ==
  op = "remove_loops" =>
    /\ pc = "_remove_loops" => Simple(ledges)
    /\ Returned => Simple(edges)

\* The points an edge array joins, row by row.
Resolved(s) ==
  [r \in 1..Len(s.edges) |->
     <<s.vertices[s.edges[r][1] + 1], s.vertices[s.edges[r][2] + 1]>>]

RECURSIVE ResolvedAll(_)
ResolvedAll(fs) ==
  IF fs = << >> THEN << >> ELSE Resolved(Head(fs)) \o ResolvedAll(Tail(fs))

\* C17: when fuse_skeletons concatenates several non-empty fragments, the
\* edges of each successor are shifted by the number of vertices placed before
\* it, so that in the fused skeleton every edge joins the same two points of
\* its own fragment as it did before.
C17_EdgesKeepOwnVertices ==
  (op = "fuse_skeletons" /\ Returned /\ Len(input.skeletons) >= 2) =>
    Resolved(fusing) = ResolvedAll(SelectSeq(input.skeletons, NotEmpty))

====
